---- MODULE Spec2Model ----
(***************************************************************************)
(* Model of the product pipelines under examples/filters:                  *)
(*   conversational_assistant_pipeline.py  ("conversational", sequential)  *)
(*   data_pipeline.py                      ("data", sequential)            *)
(*   function_calling_filter_pipeline.py   ("fc", concurrent)              *)
(*   function_calling_filter_pipeline_2.py ("fc2", concurrent)             *)
(* One invocation of get_product_data is a behaviour: the call, then one   *)
(* step per HTTP response that arrives; each step runs the code up to the  *)
(* next point where it waits for the network.                              *)
(*                                                                         *)
(* Text is a sequence of one-character strings; a URL is a sequence of     *)
(* its parts (scheme, "://", host, path).  The log is a bag of entries:    *)
(* which entries were written is modelled, their order in the file is not. *)
(***************************************************************************)
EXTENDS Integers, Sequences, FiniteSets, Bags, TLC

VARIABLES
    variant,        \* which pipeline file is running
    configured,     \* valves.BASE_API_URL / valves.PRODUCT_API_KEY is non-empty
    product_ids,    \* the argument of get_product_data
    pc,             \* "start", "fetching", "done"; "transform", "transformed"
    status,         \* per position of product_ids: "pending", "inflight", "done"
    response,       \* per position: the HTTP response that arrived
    task_result,    \* per position: what fetch_product returned
    completed,      \* positions in the order their fetches completed
    reordered,      \* TRUE once a fetch completed before one issued earlier
    raw_products,   \* the list built by the sequential loop
    requests,       \* the HTTP GETs issued so far
    log,            \* bag of log entries written so far
    result,         \* the value get_product_data returned
    raised,         \* TRUE when an exception left get_product_data
    product,        \* input of structure_product_data (transformation runs)
    structured,     \* output of structure_product_data (transformation runs)
    remote,         \* per identifier: the answers its endpoint can give
    first_call,     \* the first invocation: its identifier list and result
    messages,       \* pipe: the caller's message list
    conversation,   \* pipe: the messages handed to the completion call
    completion_calls, \* pipe: the calls of client.chat_completion so far
    assistant_reply, \* pipe: the value pipe returns
    completion,     \* pipe: what client.chat_completion did
    user,           \* inlet: the user record
    body            \* inlet: the request body

vars == <<variant, configured, product_ids, pc, status, response, task_result,
          completed, reordered, raw_products, requests, log, result, raised,
          product, structured, remote, first_call,
          messages, conversation, completion_calls, assistant_reply,
          completion, user, body>>

\* the state of a turn of pipe
pipe_vars == <<messages, conversation, completion_calls, assistant_reply,
               completion>>

\* the arguments of inlet
inlet_vars == <<user, body>>

----------------------------------------------------------------------------
(* Bounds *)

\* longest identifier list passed to get_product_data
MaxIds == 3

\* longest description handed to structure_product_data
MaxLen == 4

\* longest incoming message list
MaxMessages == 2

----------------------------------------------------------------------------
(* Variants *)

Variants == {"conversational", "data", "fc", "fc2"}

\* requests.get in a for loop
Sequential == {"conversational", "data"}

\* aiohttp tasks joined by asyncio.gather
Concurrent == {"fc", "fc2"}

\* the identifiers of the default list, product_ids = [1, 2]
Pids == {1, 2}

Digits == <<"1", "2", "3", "4", "5", "6", "7", "8", "9">>

----------------------------------------------------------------------------
(* Python values *)

\* None
None == [type |-> "none"]

\* a parsed JSON body: an object with its fields, an array, or null
JsonObject(f) == [type |-> "object", fields |-> f]

JsonArray == [type |-> "array"]

\* HttpUrl accepts http/https URLs with a host
IsHttpUrl(u) ==
    /\ Len(u) >= 3
    /\ u[1] \in {"http", "https"}
    /\ u[2] = "://"
    /\ u[3] # ""

\* class Product(BaseModel): content: str, description: str, image_url: HttpUrl
SchemaOk(f) ==
    /\ "content" \in DOMAIN f
    /\ "description" \in DOMAIN f
    /\ "image_url" \in DOMAIN f
    /\ IsHttpUrl(f.image_url)

NoProduct == [content |-> <<>>, description |-> <<>>, image_url |-> <<>>]

\* Product(**raw): TypeError when raw is no mapping, ValidationError when the
\* mapping does not fit the schema, the Product otherwise
Product(raw) ==
    IF raw.type # "object"
    THEN [exc |-> "TypeError", product |-> NoProduct]
    ELSE IF ~ SchemaOk(raw.fields)
    THEN [exc |-> "ValidationError", product |-> NoProduct]
    ELSE [exc |-> "none",
          product |-> [content |-> raw.fields.content,
                       description |-> raw.fields.description,
                       image_url |-> raw.fields.image_url]]

----------------------------------------------------------------------------
(* The remote catalogue: what a GET of {base_url}{pid} can answer *)

ContentOf(pid) == <<"N", Digits[pid]>>

\* odd identifiers carry a "Bag: <name>" description, even ones have no colon
DescriptionOf(pid) ==
    IF pid % 2 = 1 THEN <<"B", ":", " ", "T", Digits[pid]>>
                   ELSE <<"T", Digits[pid]>>

ImageOf(pid) == <<"https", "://", "x", Digits[pid]>>

ValidBody(pid) ==
    JsonObject([content |-> ContentOf(pid),
                description |-> DescriptionOf(pid),
                image_url |-> ImageOf(pid)])

\* an object the schema rejects: a missing field (odd identifiers) or a
\* malformed image_url (even identifiers)
InvalidBody(pid) ==
    IF pid % 2 = 1
    THEN JsonObject([content |-> ContentOf(pid), image_url |-> ImageOf(pid)])
    ELSE JsonObject([content |-> ContentOf(pid),
                     description |-> DescriptionOf(pid),
                     image_url |-> <<"not a url">>])

ErrorStatus(pid) == IF pid % 2 = 1 THEN 404 ELSE 500

NoResponse == [kind |-> "none", status |-> 0, body |-> None]

Responses(pid) ==
    {[kind |-> "http", status |-> 200, body |-> ValidBody(pid)],
     [kind |-> "http", status |-> 200, body |-> InvalidBody(pid)],
     [kind |-> "http", status |-> 200, body |-> JsonArray],
     [kind |-> "http", status |-> 200, body |-> None],
     [kind |-> "http", status |-> ErrorStatus(pid), body |-> None],
     [kind |-> "transport_error", status |-> 0, body |-> None]}

----------------------------------------------------------------------------
(* Log entries *)

LogEntry(level, event, pid) == SetToBag({[level |-> level, event |-> event, pid |-> pid]})

----------------------------------------------------------------------------
(* fetch_product *)

\* Product as returned by fetch_product of function_calling_filter_pipeline_2
ProductValue(p) == [type |-> "product", fields |-> p]

\* the exception the body of fetch_product's try block raises, "none" if it
\* runs to its return: the GET itself fails (transport), raise_for_status()
\* raises on a status of 400 and above, and in fc2 Product(**data) raises
FetchRaises(v, resp) ==
    IF resp.kind = "transport_error" THEN "ConnectionError"
    ELSE IF resp.status >= 400 THEN "HTTPError"
    ELSE IF v = "fc2" THEN Product(resp.body).exc
    ELSE "none"

\* fetch_product(pid, base_url): the value returned and the entries logged
fetch_product(v, pid, resp) ==
    LET exc == FetchRaises(v, resp) IN
    IF exc = "HTTPError"
    THEN [value |-> None, log |-> LogEntry("error", "Failed to retrieve product ID", pid)]
    ELSE IF exc = "ValidationError"
    THEN [value |-> None, log |-> LogEntry("error", "Validation error for product ID", pid)]
    ELSE IF exc # "none"
    THEN [value |-> None, log |-> LogEntry("error", "Error retrieving product ID", pid)]
    ELSE IF v = "fc2"
    THEN [value |-> ProductValue(Product(resp.body).product), log |-> EmptyBag]
    ELSE [value |-> resp.body,
          log |-> LogEntry("info", "Successfully retrieved product ID", pid)]

----------------------------------------------------------------------------
(* structure_product_data *)

Whitespace == {" ", "\n"}

UnknownProduct == <<"Unknown Product">>

SubSeqFrom(s, i) == IF i > Len(s) THEN <<>> ELSE SubSeq(s, i, Len(s))

\* whether :\s*(.+) matches with its colon at index i and k characters for \s*
MatchesWith(s, i, k) ==
    /\ i \in 1..Len(s)
    /\ s[i] = ":"
    /\ i + k + 1 <= Len(s)
    /\ \A j \in 1..k : s[i + j] \in Whitespace
    /\ s[i + k + 1] # "\n"

MatchesAt(s, i) == \E k \in 0..Len(s) : MatchesWith(s, i, k)

\* re.search(r':\s*(.+)', s): the index of the colon of the leftmost match,
\* 0 when nothing matches
re_search(s) ==
    IF \E i \in 1..Len(s) : MatchesAt(s, i)
    THEN CHOOSE i \in 1..Len(s) :
            MatchesAt(s, i) /\ \A h \in 1..(i - 1) : ~ MatchesAt(s, h)
    ELSE 0

\* group(1) with re.DOTALL: .+ runs to the end of the text
group1_dotall(s, i) ==
    LET k == CHOOSE k \in 0..Len(s) :
                MatchesWith(s, i, k)
                /\ \A k2 \in (k + 1)..Len(s) : ~ MatchesWith(s, i, k2)
    IN SubSeq(s, i + k + 1, Len(s))

\* group(1) of the match at i: \s* is greedy, then .+ runs to the end of
\* the line
group1(s, i) ==
    LET k == CHOOSE k \in 0..Len(s) :
                MatchesWith(s, i, k)
                /\ \A k2 \in (k + 1)..Len(s) : ~ MatchesWith(s, i, k2)
        from == i + k + 1
        to == CHOOSE e \in from..Len(s) :
                /\ \A j \in from..e : s[j] # "\n"
                /\ (e = Len(s) \/ s[e + 1] = "\n")
    IN SubSeq(s, from, to)

RECURSIVE lstrip(_)
lstrip(s) ==
    IF s # <<>> /\ Head(s) \in Whitespace THEN lstrip(Tail(s)) ELSE s

RECURSIVE rstrip(_)
rstrip(s) ==
    IF s # <<>> /\ s[Len(s)] \in Whitespace
    THEN rstrip(SubSeq(s, 1, Len(s) - 1))
    ELSE s

\* str.strip()
strip(s) == rstrip(lstrip(s))

\* name_match.group(1).strip() if name_match else "Unknown Product"
extract_name(description) ==
    LET name_match == re_search(description) IN
    IF name_match # 0 THEN strip(group1(description, name_match))
                      ELSE UnknownProduct

\* description and content in the wrong order
structure_product_data_swapped(p) ==
    [name |-> extract_name(p.description),
     description |-> p.description \o <<" ", "-", " ">> \o p.content,
     image |-> p.image_url]

\* structure_product_data(product) -> StructuredProduct
structure_product_data(p) ==
    [name |-> extract_name(p.description),
     description |-> p.content \o <<" ", "-", " ">> \o p.description,
     image |-> p.image_url]

NoStructured == [name |-> <<>>, description |-> <<>>, image |-> <<>>]

----------------------------------------------------------------------------
(* What get_product_data returns *)

NoResult == [kind |-> "pending", text |-> "", blocks |-> <<>>, tail |-> ""]

ReturnNone == [kind |-> "none", text |-> "", blocks |-> <<>>, tail |-> ""]

ReturnText(t) == [kind |-> "text", text |-> t, blocks |-> <<>>, tail |-> ""]

Heading(v) ==
    IF v = "conversational" THEN "### Catalogue de Produits"
                            ELSE "### Assistant Vente de Produits de Luxe"

Instructions(v) ==
    IF v = "conversational" THEN "" ELSE "**Instructions de Conversation**"

\* the blocks numbered from 0, as enumerate(products) without start=1
format_products_from_zero(v, products) ==
    [kind |-> "document",
     text |-> Heading(v),
     blocks |-> [idx \in 1..Len(products) |->
                    [idx |-> idx - 1,
                     name |-> products[idx].name,
                     description |-> products[idx].description,
                     image |-> products[idx].image]],
     tail |-> Instructions(v)]

\* for idx, product in enumerate(products, start=1): one block each
format_products_to_markdown(v, products) ==
    [kind |-> "document",
     text |-> Heading(v),
     blocks |-> [idx \in 1..Len(products) |->
                    [idx |-> idx,
                     name |-> products[idx].name,
                     description |-> products[idx].description,
                     image |-> products[idx].image]],
     tail |-> Instructions(v)]

\* fc2 joins one "Content: .., Description: .., Image URL: .." line per product
format_product_lines(products) ==
    [kind |-> "listing",
     text |-> "",
     blocks |-> [i \in 1..Len(products) |->
                    [content |-> products[i].fields.content,
                     description |-> products[i].fields.description,
                     image_url |-> products[i].fields.image_url]],
     tail |-> ""]

\* the value returned when BASE_API_URL / PRODUCT_API_KEY is empty
NotConfigured(v) ==
    CASE v = "conversational" -> ReturnNone
      [] v = "data" -> ReturnText("API URL not set, please set it up.")
      [] OTHER -> ReturnText("Product API Key not set, please set it up.")

\* absence in every file, as in the conversational pipeline
NothingFetched_absent(v) == ReturnNone

\* the value returned when raw_products is empty
NothingFetched(v) ==
    IF v = "conversational" THEN ReturnNone
    ELSE ReturnText("No products found or all retrievals failed.")

\* the value returned when structured_products is empty
NothingValid(v) ==
    IF v = "conversational" THEN ReturnNone
    ELSE ReturnText("No valid products found after processing.")

\* the value returned by the handler of the outer try
ErrorResult(v) ==
    IF v = "conversational" THEN ReturnNone
    ELSE ReturnText("An error occurred while retrieving data")

----------------------------------------------------------------------------
(* get_product_data, after the fetches *)

\* except ValidationError, inside the loop
InnerCatches(exc) == exc = "ValidationError"

\* except ValidationError around the whole batch
OuterCatchesValidationError(exc) == exc = "ValidationError"

\* except Exception, around the whole batch
OuterCatches(exc) == TRUE

\* the loop over raw_products: Product(**raw_product), structure_product_data,
\* append; a ValidationError is logged and the loop continues, any other
\* exception leaves the loop
RECURSIVE validate_loop(_)
validate_loop(raws) ==
    IF raws = <<>>
    THEN [exc |-> "none", structured_products |-> <<>>, log |-> EmptyBag]
    ELSE LET made == Product(Head(raws)) IN
         IF made.exc # "none" /\ ~ InnerCatches(made.exc)
         THEN [exc |-> made.exc, structured_products |-> <<>>, log |-> EmptyBag]
         ELSE LET rest == validate_loop(Tail(raws)) IN
              IF made.exc = "none"
              THEN [rest EXCEPT !.structured_products =
                        <<structure_product_data(made.product)>> \o @]
              ELSE [rest EXCEPT !.log = LogEntry("error", "Validation error", 0) (+) @]

\* the same without "if structured_products": the formatter is always called
process_raw_products_unguarded(v, raws) ==
    IF v = "fc2"
    THEN [result |-> format_product_lines(raws), log |-> EmptyBag, raised |-> FALSE]
    ELSE LET looped == validate_loop(raws) IN
         IF looped.exc # "none"
         THEN [result |-> ErrorResult(v),
               log |-> looped.log (+)
                       LogEntry("error", "An error occurred while retrieving product data", 0),
               raised |-> FALSE]
         ELSE [result |-> format_products_to_markdown(v, looped.structured_products),
               log |-> looped.log, raised |-> FALSE]

\* if raw_products: ... else: ..., and the outer except
process_raw_products(v, raws) ==
    IF v = "fc2"
    THEN [result |-> IF raws # <<>> THEN format_product_lines(raws)
                                    ELSE NothingFetched(v),
          log |-> EmptyBag, raised |-> FALSE]
    ELSE IF raws = <<>>
    THEN [result |-> NothingFetched(v), log |-> EmptyBag, raised |-> FALSE]
    ELSE LET looped == validate_loop(raws) IN
         IF looped.exc # "none"
         THEN IF OuterCatches(looped.exc)
              THEN [result |-> ErrorResult(v),
                    log |-> looped.log (+)
                            LogEntry("error", "An error occurred while retrieving product data", 0),
                    raised |-> FALSE]
              ELSE [result |-> NoResult, log |-> looped.log, raised |-> TRUE]
         ELSE [result |-> IF looped.structured_products # <<>>
                          THEN format_products_to_markdown(v, looped.structured_products)
                          ELSE NothingValid(v),
               log |-> looped.log, raised |-> FALSE]

----------------------------------------------------------------------------
(* Fetching *)

HttpGet(v, pid) == [method |-> "GET", pid |-> pid, bearer |-> v \in Concurrent]

\* the results in the order the tasks completed, as asyncio.as_completed
gather_as_completed(n, results, order) ==
    [k \in 1..n |-> IF k \in DOMAIN order THEN results[order[k]] ELSE None]

\* asyncio.gather(*tasks): the results in the order of the tasks
gather(n, results, order) == [p \in 1..n |-> results[p]]

\* resumes as soon as one task is done, as asyncio.wait(FIRST_COMPLETED)
first_fetched(st) == \E p \in DOMAIN st : st[p] = "done"

\* await asyncio.gather(...) resumes when every task is done; the for loop
\* ends after its last iteration
all_fetched(st) == \A p \in DOMAIN st : st[p] = "done"

\* [prod for prod in raw_products if prod is not None]
not_none(values) == SelectSeq(values, LAMBDA x : x.type # "none")

\* the configuration check left out
is_configured_unchecked(c) == TRUE

\* if not self.valves.BASE_API_URL / if PRODUCT_API_KEY == ""
is_configured(c) == c

----------------------------------------------------------------------------
(* One invocation of get_product_data *)

IdLists == UNION {[1..n -> Pids] : n \in 0..MaxIds}

\* an endpoint that may give any of its answers
AnyRemote == [pid \in Pids |-> Responses(pid)]

\* pipe has not been called
NoReply == ""

\* client.chat_completion has not been called
NoCompletion == [kind |-> "none", content |-> ""]

\* inlet has not been called
NoUser == [given |-> FALSE, has_role |-> FALSE, role |-> ""]

NoBody == [messages |-> <<>>, model |-> ""]

NoTurn ==
    /\ messages = <<>>
    /\ conversation = <<>>
    /\ completion_calls = 0
    /\ assistant_reply = NoReply
    /\ completion = NoCompletion
    /\ user = NoUser
    /\ body = NoBody

\* no invocation has returned yet
NoFirst == [set |-> FALSE, ids |-> <<>>, result |-> NoResult, between |-> FALSE]

\* one task per distinct identifier: a repeated identifier is served from the
\* first fetch of it
tasks_created_once(v, ids) ==
    IF v \in Sequential THEN {p \in DOMAIN ids : p = 1}
    ELSE {p \in DOMAIN ids : \A q \in 1..(p - 1) : ids[q] # ids[p]}

\* every fetch started at once, in the sequential variants as well
tasks_created_at_once(v, ids) == DOMAIN ids

\* tasks = [self.fetch_product(session, pid, base_api_url) for pid in
\* product_ids]: one task per entry; the for loop starts with its first entry
tasks_created(v, ids) ==
    IF v \in Sequential THEN {p \in DOMAIN ids : p = 1} ELSE DOMAIN ids

\* a list that survives from call to call (a default argument, an attribute)
kept_list(previous) == previous

\* raw_products = []
fresh_list(previous) == <<>>

\* one result variable shared by the tasks
slot_update_shared(results, p, value) == [q \in DOMAIN results |-> value]

\* the slot of task p receives what its fetch_product returned
slot_update(results, p, value) == [results EXCEPT ![p] = value]

Init ==
    /\ variant \in Variants
    /\ configured \in BOOLEAN
    /\ product_ids \in IdLists
    /\ pc = "start"
    /\ status = [p \in DOMAIN product_ids |-> "pending"]
    /\ response = [p \in DOMAIN product_ids |-> NoResponse]
    /\ task_result = [p \in DOMAIN product_ids |-> None]
    /\ completed = <<>>
    /\ reordered = FALSE
    /\ raw_products = <<>>
    /\ requests = <<>>
    /\ log = EmptyBag
    /\ result = NoResult
    /\ raised = FALSE
    /\ product = NoProduct
    /\ structured = NoStructured
    /\ remote = AnyRemote
    /\ first_call = NoFirst
    /\ NoTurn

\* the rest of get_product_data once nothing is left to fetch
Finish(raws, logged) ==
    LET out == process_raw_products(variant, raws) IN
    /\ result' = out.result
    /\ log' = logged (+) out.log
    /\ raised' = out.raised
    /\ completed' = <<>>
    /\ pc' = "done"

\* get_product_data is called: the configuration check, then the first GET
\* of the loop (sequential) or one task per identifier (concurrent)
get_product_data ==
    /\ pc = "start"
    /\ UNCHANGED <<variant, configured, product_ids, response, task_result,
                   reordered, product, structured, remote, first_call, pipe_vars,
                   inlet_vars>>
    /\ IF ~ is_configured(configured)
       THEN /\ result' = NotConfigured(variant)
            /\ pc' = "done"
            /\ UNCHANGED <<status, requests, log, raised, completed, raw_products>>
       ELSE LET issued == tasks_created(variant, product_ids)
                st == [p \in DOMAIN product_ids |->
                          IF p \in issued THEN "inflight" ELSE "pending"]
                sent == SelectSeq([p \in DOMAIN product_ids |-> p],
                                  LAMBDA p : p \in issued)
                raws == fresh_list(raw_products)
            IN /\ status' = st
               /\ raw_products' = raws
               /\ requests' = [k \in DOMAIN sent |->
                                  HttpGet(variant, product_ids[sent[k]])]
               /\ IF all_fetched(st)
                  THEN Finish(raws, log)
                  ELSE /\ pc' = "fetching"
                       /\ UNCHANGED <<log, result, raised, completed>>

\* the GET of position p ends with resp: fetch_product returns, and the
\* caller goes on to its next wait (the next GET of the loop) or, when
\* nothing is left to wait for, to validation, rendering and its return
fetch_ends(p, resp) ==
    /\ pc = "fetching"
    /\ status[p] = "inflight"
    /\ LET fetched == fetch_product(variant, product_ids[p], resp)
           results == slot_update(task_result, p, fetched.value)
           order == Append(completed, p)
           more == variant \in Sequential /\ p < Len(product_ids)
           st == [q \in DOMAIN status |->
                     IF q = p THEN "done"
                     ELSE IF more /\ q = p + 1 THEN "inflight"
                     ELSE status[q]]
           raws == IF variant \in Sequential /\ fetched.value.type # "none"
                   THEN Append(raw_products, fetched.value)
                   ELSE raw_products
       IN /\ response' = [response EXCEPT ![p] = resp]
          /\ task_result' = results
          /\ status' = st
          /\ raw_products' = raws
          /\ reordered' = (reordered \/ \E q \in 1..(p - 1) : status[q] = "inflight")
          /\ requests' = IF more
                         THEN Append(requests, HttpGet(variant, product_ids[p + 1]))
                         ELSE requests
          /\ IF all_fetched(st)
             THEN Finish(IF variant \in Sequential
                         THEN raws
                         ELSE not_none(gather(Len(product_ids), results, order)),
                         log (+) fetched.log)
             ELSE /\ log' = log (+) fetched.log
                  /\ completed' = order
                  /\ UNCHANGED <<pc, result, raised>>
    /\ UNCHANGED <<variant, configured, product_ids, product, structured,
                   remote, first_call, pipe_vars,
                   inlet_vars>>

\* the response to the GET of position p arrives
fetch_returns(p) == \E resp \in remote[product_ids[p]] : fetch_ends(p, resp)

Next ==
    \/ get_product_data
    \/ \E p \in DOMAIN product_ids : fetch_returns(p)

Spec == Init /\ [][Next]_vars

----------------------------------------------------------------------------
(* get_product_data against endpoints that may never answer *)

\* an endpoint answers every request, or none at all
LiveRemotes ==
    {[pid \in Pids |-> IF pid \in silent THEN {} ELSE Responses(pid)] :
        silent \in SUBSET Pids}

\* requests.get(url) is called without timeout: the call waits for as long as
\* the endpoint is silent. aiohttp.ClientSession() is created without
\* timeout, and its default is a total of 5 minutes per request
has_timeout(v) == v \in Concurrent

\* asyncio.TimeoutError leaves session.get and is handled by except Exception
TimedOut == [kind |-> "transport_error", status |-> 0, body |-> None]

InitLive ==
    /\ variant \in Variants
    /\ configured = TRUE
    /\ product_ids \in IdLists
    /\ pc = "start"
    /\ status = [p \in DOMAIN product_ids |-> "pending"]
    /\ response = [p \in DOMAIN product_ids |-> NoResponse]
    /\ task_result = [p \in DOMAIN product_ids |-> None]
    /\ completed = <<>>
    /\ reordered = FALSE
    /\ raw_products = <<>>
    /\ requests = <<>>
    /\ log = EmptyBag
    /\ result = NoResult
    /\ raised = FALSE
    /\ product = NoProduct
    /\ structured = NoStructured
    /\ remote \in LiveRemotes
    /\ first_call = NoFirst
    /\ NoTurn

\* the request of position p gets no answer and the client gives up
fetch_times_out(p) ==
    /\ has_timeout(variant)
    /\ remote[product_ids[p]] = {}
    /\ fetch_ends(p, TimedOut)

NextLive ==
    \/ get_product_data
    \/ \E p \in DOMAIN product_ids : fetch_returns(p)
    \/ \E p \in DOMAIN product_ids : fetch_times_out(p)

\* an answer that is on its way arrives, a running timer expires
SpecLive == InitLive /\ [][NextLive]_vars /\ WF_vars(NextLive)

----------------------------------------------------------------------------
(* pipe of the conversational pipeline: get_product_data() with the        *)
(* default identifiers, then the conversation and the completion call      *)

DefaultIds == <<1, 2>>

\* the content of a message: its fixed text and the data formatted into it
Content(text, data) == [text |-> text, data |-> data]

Messages == [role : {"user", "assistant"},
             content : {Content("first", NoResult), Content("second", NoResult)}]

MessageLists == UNION {[1..n -> Messages] : n \in 0..MaxMessages}

\* if product_data_markdown: None and "" are false, any other string is true
truthy(r) ==
    /\ r.kind # "none"
    /\ ~ (r.kind = "text" /\ r.text = "")
    /\ ~ (r.kind = "listing" /\ r.blocks = <<>>)

\* the f-string: instructions, the product data, the reminder
assistant_context(data) ==
    [instructions |-> "You are an assistant helping customers discover and purchase luxury products from prestigious brands.",
     product_data |-> data,
     reminder |-> "Remember to follow the instructions and provide responses in a conversational manner."]

Apology == "Je suis desole, mais je ne peux pas recuperer les informations sur les produits pour le moment."

NoAnswer == "Je suis desole, mais je ne peux pas repondre a votre demande pour le moment."

\* the system message inserted at the head of the caller's own list, which
\* then serves as the conversation
build_conversation_in_place(context, msgs) ==
    [conversation |-> <<[role |-> "system", content |-> context]>> \o msgs,
     messages |-> <<[role |-> "system", content |-> context]>> \o msgs]

\* conversation = [{"role": "system", "content": assistant_context}];
\* conversation.extend(messages): a new list, messages is only read
build_conversation(context, msgs) ==
    [conversation |-> <<[role |-> "system", content |-> context]>> \o msgs,
     messages |-> msgs]

\* what client.chat_completion(payload) can do: return a response with a
\* first choice, return something without one, raise
Completions ==
    {[kind |-> "response", content |-> "reply"],
     [kind |-> "no choice", content |-> ""],
     [kind |-> "raises", content |-> ""]}

\* the exception the body of generate_assistant_reply's try block raises:
\* the call itself, or response["choices"][0]["message"]["content"]
CompletionRaises(outcome) ==
    CASE outcome.kind = "raises" -> "ClientError"
      [] outcome.kind = "no choice" -> "KeyError"
      [] OTHER -> "none"

\* a handler for the errors of the client only
ReplyCatchesClientError(exc) == exc = "ClientError"

\* except Exception
ReplyCatches(exc) == TRUE

\* response["choices"][0]["message"]["content"], or the fixed text of the
\* handler with its log entry
generate_assistant_reply(outcome) ==
    LET exc == CompletionRaises(outcome) IN
    IF exc = "none"
    THEN [reply |-> outcome.content, log |-> EmptyBag, raised |-> FALSE]
    ELSE IF ReplyCatches(exc)
    THEN [reply |-> NoAnswer,
          log |-> LogEntry("error", "An error occurred while generating assistant reply", 0),
          raised |-> FALSE]
    ELSE [reply |-> NoReply, log |-> EmptyBag, raised |-> TRUE]

InitPipe ==
    /\ variant = "conversational"
    /\ configured \in BOOLEAN
    /\ product_ids = DefaultIds
    /\ pc = "start"
    /\ status = [p \in DOMAIN product_ids |-> "pending"]
    /\ response = [p \in DOMAIN product_ids |-> NoResponse]
    /\ task_result = [p \in DOMAIN product_ids |-> None]
    /\ completed = <<>>
    /\ reordered = FALSE
    /\ raw_products = <<>>
    /\ requests = <<>>
    /\ log = EmptyBag
    /\ result = NoResult
    /\ raised = FALSE
    /\ product = NoProduct
    /\ structured = NoStructured
    /\ remote = AnyRemote
    /\ first_call = NoFirst
    /\ messages \in MessageLists
    /\ conversation = <<>>
    /\ completion_calls = 0
    /\ assistant_reply = NoReply
    /\ completion = NoCompletion
    /\ user = NoUser
    /\ body = NoBody

\* get_product_data has returned into pipe: the conversation is built and
\* client.chat_completion is called, or the apology is returned
pipe ==
    /\ pc = "done"
    /\ IF truthy(result)
       THEN LET built == build_conversation(assistant_context(result), messages) IN
            /\ conversation' = built.conversation
            /\ messages' = built.messages
            /\ completion_calls' = completion_calls + 1
            /\ pc' = "completing"
            /\ UNCHANGED assistant_reply
       ELSE /\ assistant_reply' = Apology
            /\ pc' = "returned"
            /\ UNCHANGED <<messages, conversation, completion_calls>>
    /\ UNCHANGED <<variant, configured, product_ids, status, response,
                   task_result, completed, reordered, raw_products, requests,
                   log, result, raised, product, structured, remote, first_call,
                   completion, inlet_vars>>

\* client.chat_completion returns or raises; pipe returns the reply
chat_completion_returns ==
    /\ pc = "completing"
    /\ \E outcome \in Completions :
        LET generated == generate_assistant_reply(outcome) IN
        /\ completion' = outcome
        /\ assistant_reply' = generated.reply
        /\ log' = log (+) generated.log
        /\ raised' = generated.raised
    /\ pc' = "returned"
    /\ UNCHANGED <<variant, configured, product_ids, status, response,
                   task_result, completed, reordered, raw_products, requests,
                   result, product, structured, remote, first_call,
                   messages, conversation, completion_calls, inlet_vars>>

NextPipe ==
    \/ get_product_data
    \/ \E p \in DOMAIN product_ids : fetch_returns(p)
    \/ pipe
    \/ chat_completion_returns

SpecPipe == InitPipe /\ [][NextPipe]_vars

----------------------------------------------------------------------------
(* The callers of the retrievals that return text: inlet of the two        *)
(* function-calling filters and of the space filter, pipe of data_pipeline *)

ProductFilters == {"fc", "fc2"}

Filters == ProductFilters \cup {"space"}

\* target_user_roles: List[str] = ["admin", "user"]
target_user_roles == {"admin", "user"}

\* user: Optional[dict] = None; a record with or without the key "role"
Users ==
    {NoUser, [given |-> TRUE, has_role |-> FALSE, role |-> ""]}
    \cup {[given |-> TRUE, has_role |-> TRUE, role |-> r] : r \in {"admin", "user", "guest"}}

Bodies == [messages : MessageLists, model : {"m"}]

\* a missing role counts as "user"
permitted_by_default(u) == ~ u.has_role \/ u.role \in target_user_roles

\* user.get("role", "unknown") in self.valves.target_user_roles
permitted(u) ==
    (IF u.has_role THEN u.role ELSE "unknown") \in target_user_roles

Assistant(content) == [role |-> "assistant", content |-> content]

Refusal(v) ==
    Assistant(Content(CASE v = "fc" -> "Votre role ne vous permet pas de recuperer les donnees des produits."
                        [] v = "fc2" -> "Your role does not permit product data retrieval."
                        [] OTHER -> "Your role does not permit space data retrieval.",
                      NoResult))

Fallback(v) ==
    IF v = "space" THEN "No available spaces found or error occurred."
                   ELSE "No available products found."

\* the message built from api_data in the branch "if api_data:"
DataMessage(v, api_data) ==
    Assistant(Content(CASE v = "fc2" -> "Available Product Details:"
                        [] v = "space" -> "Available Space Details:"
                        [] OTHER -> "",
                      api_data))

TimeMessage == Assistant(Content("Current Time:", NoResult))

\* response_messages of a permitted role, once the retrieval has returned
response_messages(v, api_data) ==
    <<IF truthy(api_data) THEN DataMessage(v, api_data)
                          ELSE Assistant(Content(Fallback(v), NoResult))>>
    \o (IF v \in ProductFilters THEN <<TimeMessage>> ELSE <<>>)

\* body["messages"] = response_messages
assign(b, msgs) == [b EXCEPT !.messages = msgs]

\* body["messages"].extend(response_messages)
extend(b, msgs) == [b EXCEPT !.messages = @ \o msgs]

\* a parsed JSON list of rows
JsonList(rows) == [type |-> "list", rows |-> rows]

SpaceRow == <<"7", "owner", "Paris", "900", "x", "y", "office">>

ShortRow == <<"7", "owner", "Paris">>

\* what GET .../api/spaces can answer: rows, a row too short, no row, an
\* object, null, a body that is no JSON, an error status, no connection
SpaceResponses ==
    {[kind |-> "http", status |-> 200, body |-> b] :
        b \in {JsonList(<<SpaceRow>>), JsonList(<<ShortRow>>), JsonList(<<>>),
               JsonObject([id |-> "7"]), None, [type |-> "invalid"]}}
    \cup {[kind |-> "http", status |-> 500, body |-> None],
          [kind |-> "transport_error", status |-> 0, body |-> None]}

\* retrieve_space_data: the text returned for a response
retrieve_space_data(resp) ==
    IF resp.kind = "transport_error" \/ (resp.status = 200 /\ resp.body.type = "invalid")
    THEN ReturnText("Error occurred while retrieving data")
    ELSE IF resp.status # 200
    THEN ReturnText("Error: Failed to retrieve data. Status code")
    ELSE IF resp.body.type = "list" /\ resp.body.rows # <<>>
    THEN LET row == resp.body.rows[1] IN
         IF Len(row) >= 7
         THEN [kind |-> "text", text |-> "ID, Location, Price per month, Type",
               blocks |-> <<[id |-> row[1], location |-> row[3],
                             price |-> row[4], type |-> row[7]]>>,
               tail |-> ""]
         ELSE ReturnText("Error occurred while retrieving data")
    ELSE ReturnText("No space data available.")

InitInlet ==
    /\ variant \in Filters \cup {"data"}
    /\ configured \in (IF variant = "space" THEN {TRUE} ELSE BOOLEAN)
    /\ product_ids \in (CASE variant = "data" -> IdLists
                          [] variant = "space" -> {<<>>}
                          [] OTHER -> {DefaultIds})
    /\ pc = IF variant = "data" THEN "start" ELSE "inlet"
    /\ status = [p \in DOMAIN product_ids |-> "pending"]
    /\ response = [p \in DOMAIN product_ids |-> NoResponse]
    /\ task_result = [p \in DOMAIN product_ids |-> None]
    /\ completed = <<>>
    /\ reordered = FALSE
    /\ raw_products = <<>>
    /\ requests = <<>>
    /\ log = EmptyBag
    /\ result = NoResult
    /\ raised = FALSE
    /\ product = NoProduct
    /\ structured = NoStructured
    /\ remote = AnyRemote
    /\ first_call = NoFirst
    /\ user \in (IF variant = "data" THEN {NoUser} ELSE Users)
    /\ body \in (IF variant = "data" THEN {NoBody} ELSE Bodies)
    /\ messages = body.messages
    /\ conversation = <<>>
    /\ completion_calls = 0
    /\ assistant_reply = NoReply
    /\ completion = NoCompletion

\* inlet is called: user.get fails on None; a refused role gets the refusal
\* and inlet returns; a permitted role starts the retrieval
inlet ==
    /\ pc = "inlet"
    /\ IF ~ user.given
       THEN /\ raised' = TRUE
            /\ pc' = "returned"
            /\ UNCHANGED body
       ELSE IF permitted(user)
       THEN /\ pc' = IF variant = "space" THEN "space" ELSE "start"
            /\ UNCHANGED <<body, raised>>
       ELSE /\ body' = extend(body, <<Refusal(variant)>>)
            /\ pc' = "returned"
            /\ UNCHANGED raised
    /\ UNCHANGED <<variant, configured, product_ids, status, response,
                   task_result, completed, reordered, raw_products, requests,
                   log, result, product, structured, remote, first_call,
                   pipe_vars, user>>

\* response = requests.get(api_url)
space_requested ==
    /\ pc = "space"
    /\ requests' = <<HttpGet(variant, 0)>>
    /\ pc' = "space_fetching"
    /\ UNCHANGED <<variant, configured, product_ids, status, response,
                   task_result, completed, reordered, raw_products, log, result,
                   raised, product, structured, remote, first_call, pipe_vars,
                   inlet_vars>>

\* the response arrives and retrieve_space_data returns
space_returns ==
    /\ pc = "space_fetching"
    /\ \E resp \in SpaceResponses : result' = retrieve_space_data(resp)
    /\ pc' = "done"
    /\ UNCHANGED <<variant, configured, product_ids, status, response,
                   task_result, completed, reordered, raw_products, requests,
                   log, raised, product, structured, remote, first_call,
                   pipe_vars, inlet_vars>>

\* the retrieval has returned into inlet: the data message or the fallback,
\* the time in the product filters, body["messages"].extend, return body
inlet_returns ==
    /\ pc = "done"
    /\ variant \in Filters
    /\ body' = extend(body, response_messages(variant, result))
    /\ pc' = "returned"
    /\ UNCHANGED <<variant, configured, product_ids, status, response,
                   task_result, completed, reordered, raw_products, requests,
                   log, result, raised, product, structured, remote, first_call,
                   pipe_vars, user>>

\* pipe of data_pipeline: response_message is api_data or the fallback, and
\* the current time is added to it
response_message(api_data) ==
    [text |-> IF truthy(api_data) THEN "" ELSE Fallback("data"),
     data |-> IF truthy(api_data) THEN api_data ELSE NoResult,
     time |-> "Current Time ="]

\* get_product_data has returned into pipe of data_pipeline
data_pipe ==
    /\ pc = "done"
    /\ variant = "data"
    /\ assistant_reply' = response_message(result)
    /\ pc' = "returned"
    /\ UNCHANGED <<variant, configured, product_ids, status, response,
                   task_result, completed, reordered, raw_products, requests,
                   log, result, raised, product, structured, remote, first_call,
                   messages, conversation, completion_calls, completion,
                   inlet_vars>>

NextInlet ==
    \/ inlet
    \/ get_product_data
    \/ \E p \in DOMAIN product_ids : fetch_returns(p)
    \/ space_requested
    \/ space_returns
    \/ inlet_returns
    \/ data_pipe

SpecInlet == InitInlet /\ [][NextInlet]_vars

----------------------------------------------------------------------------
(* structure_product_data on its own *)

Alphabet == {"a", ":", " ", "\n"}

Descriptions == UNION {[1..n -> Alphabet] : n \in 0..MaxLen}

Contents == {<<"c">>, <<"c", ":", "d">>}

InitStructure ==
    /\ variant \in {"conversational", "fc"}
    /\ configured = TRUE
    /\ product_ids = <<>>
    /\ pc = "transform"
    /\ status = <<>>
    /\ response = <<>>
    /\ task_result = <<>>
    /\ completed = <<>>
    /\ reordered = FALSE
    /\ raw_products = <<>>
    /\ requests = <<>>
    /\ log = EmptyBag
    /\ result = NoResult
    /\ raised = FALSE
    /\ product \in [content : Contents,
                    description : Descriptions,
                    image_url : {ImageOf(1), ImageOf(2)}]
    /\ structured = NoStructured
    /\ remote = AnyRemote
    /\ first_call = NoFirst
    /\ NoTurn

\* structured_product = self.structure_product_data(product)
Structure ==
    /\ pc = "transform"
    /\ structured' = structure_product_data(product)
    /\ pc' = "transformed"
    /\ UNCHANGED <<variant, configured, product_ids, status, response,
                   task_result, completed, reordered, raw_products, requests,
                   log, result, raised, product, remote, first_call, pipe_vars,
                   inlet_vars>>

NextStructure == Structure

SpecStructure == InitStructure /\ [][NextStructure]_vars

----------------------------------------------------------------------------
(* get_product_data called again and again against a remote that does not  *)
(* change: every identifier has one answer                                 *)

StableRemotes ==
    {[pid \in Pids |-> {answer[pid]}] :
        answer \in {a \in [Pids -> UNION {Responses(pid) : pid \in Pids}] :
                        \A pid \in Pids : a[pid] \in Responses(pid)}}

InitRepeat ==
    /\ variant \in Sequential
    /\ configured = TRUE
    /\ product_ids \in IdLists
    /\ pc = "start"
    /\ status = [p \in DOMAIN product_ids |-> "pending"]
    /\ response = [p \in DOMAIN product_ids |-> NoResponse]
    /\ task_result = [p \in DOMAIN product_ids |-> None]
    /\ completed = <<>>
    /\ reordered = FALSE
    /\ raw_products = <<>>
    /\ requests = <<>>
    /\ log = EmptyBag
    /\ result = NoResult
    /\ raised = FALSE
    /\ product = NoProduct
    /\ structured = NoStructured
    /\ remote \in StableRemotes
    /\ first_call = NoFirst
    /\ NoTurn

\* after get_product_data has returned, the caller calls it again with some
\* identifier list; what the returned invocation left behind stays as it is,
\* the requests and the log are observed per invocation
call_again ==
    /\ pc = "done"
    /\ first_call' = IF first_call.set
                     THEN [first_call EXCEPT !.between = @ \/ product_ids # first_call.ids]
                     ELSE [set |-> TRUE, ids |-> product_ids, result |-> result,
                           between |-> FALSE]
    /\ \E ids \in IdLists :
        /\ product_ids' = ids
        /\ status' = [p \in DOMAIN ids |-> "pending"]
        /\ response' = [p \in DOMAIN ids |-> NoResponse]
        /\ task_result' = [p \in DOMAIN ids |-> None]
    /\ completed' = <<>>
    /\ reordered' = FALSE
    /\ requests' = <<>>
    /\ log' = EmptyBag
    /\ result' = NoResult
    /\ raised' = FALSE
    /\ pc' = "start"
    /\ UNCHANGED <<variant, configured, raw_products, product, structured,
                   remote, pipe_vars,
                   inlet_vars>>

NextRepeat ==
    \/ get_product_data
    \/ \E p \in DOMAIN product_ids : fetch_returns(p)
    \/ call_again

SpecRepeat == InitRepeat /\ [][NextRepeat]_vars

----------------------------------------------------------------------------
(* Rendering on its own: format_products_to_markdown called directly on    *)
(* the structured products of a batch, next to the second half of          *)
(* get_product_data working on the same batch                              *)

RawRecords == UNION {{ValidBody(pid), InvalidBody(pid)} : pid \in Pids}

RawLists == UNION {[1..n -> RawRecords] : n \in 0..MaxIds}

InitRender ==
    /\ variant \in {"conversational", "data", "fc"}
    /\ configured = TRUE
    /\ product_ids = <<>>
    /\ pc = "render"
    /\ status = <<>>
    /\ response = <<>>
    /\ task_result = <<>>
    /\ completed = <<>>
    /\ reordered = FALSE
    /\ raw_products \in RawLists
    /\ requests = <<>>
    /\ log = EmptyBag
    /\ result = NoResult
    /\ raised = FALSE
    /\ product = NoProduct
    /\ structured = NoStructured
    /\ remote = AnyRemote
    /\ first_call = NoFirst
    /\ NoTurn

\* the products the validation loop keeps of raw_products
structured_products == validate_loop(raw_products).structured_products

\* self.format_products_to_markdown(products), called on its own
Render ==
    /\ pc = "render"
    /\ result' = format_products_to_markdown(variant, structured_products)
    /\ pc' = "rendered"
    /\ UNCHANGED <<variant, configured, product_ids, status, response,
                   task_result, completed, reordered, raw_products, requests,
                   log, raised, product, structured, remote, first_call, pipe_vars,
                   inlet_vars>>

\* get_product_data from "if raw_products:" on
Process ==
    /\ pc = "render"
    /\ LET out == process_raw_products(variant, raw_products) IN
        /\ result' = out.result
        /\ log' = log (+) out.log
        /\ raised' = out.raised
    /\ pc' = "processed"
    /\ UNCHANGED <<variant, configured, product_ids, status, response,
                   task_result, completed, reordered, raw_products, requests,
                   product, structured, remote, first_call, pipe_vars,
                   inlet_vars>>

NextRender == Render \/ Process

SpecRender == InitRender /\ [][NextRender]_vars

----------------------------------------------------------------------------
(* Observations used by the properties; the expected blocks are written    *)
(* from the catalogue, not computed with the operators above               *)

Positions == DOMAIN product_ids

FetchFailed(p) ==
    /\ status[p] = "done"
    /\ (response[p].kind = "transport_error" \/ response[p].status >= 400)

\* the fetch returned a record and the record fits the Product schema
RecordValid(p) ==
    /\ status[p] = "done"
    /\ response[p] = [kind |-> "http", status |-> 200,
                      body |-> ValidBody(product_ids[p])]

\* the fetch returned a record and the record does not fit the schema
RecordRejected(p) ==
    /\ status[p] = "done"
    /\ response[p].kind = "http"
    /\ response[p].status = 200
    /\ response[p].body \in {InvalidBody(product_ids[p]), JsonArray}

\* the fetch returned a parsed body that is no JSON object
NotAMapping(p) ==
    /\ status[p] = "done"
    /\ response[p].kind = "http"
    /\ response[p].status = 200
    /\ response[p].body = JsonArray

ValidPositions == {p \in Positions : RecordValid(p)}

\* the k-th valid position, counting in input order
KthValid(k) ==
    CHOOSE p \in ValidPositions :
        Cardinality({q \in ValidPositions : q <= p}) = k

ExpectedName(pid) ==
    IF pid % 2 = 1 THEN <<"T", Digits[pid]>> ELSE <<"Unknown Product">>

ExpectedDescription(pid) ==
    IF pid % 2 = 1
    THEN <<"N", Digits[pid], " ", "-", " ", "B", ":", " ", "T", Digits[pid]>>
    ELSE <<"N", Digits[pid], " ", "-", " ", "T", Digits[pid]>>

IsDocument == result.kind \in {"document", "listing"}

IsBlockOf(b, pid) ==
    IF result.kind = "listing"
    THEN /\ b.content = <<"N", Digits[pid]>>
         /\ b.image_url = <<"https", "://", "x", Digits[pid]>>
    ELSE /\ b.name = ExpectedName(pid)
         /\ b.description = ExpectedDescription(pid)
         /\ b.image = <<"https", "://", "x", Digits[pid]>>

HasBlockFor(p) ==
    /\ IsDocument
    /\ \E k \in DOMAIN result.blocks : IsBlockOf(result.blocks[k], product_ids[p])

Logged(event, pid) ==
    \E e \in BagToSet(log) : e.event = event /\ e.pid = pid

NoFetchInFlight == \A p \in Positions : status[p] # "inflight"

----------------------------------------------------------------------------
(* C1: in get_product_data of the conversational pipeline, when the fetch  *)
(* of some identifier fails (HTTP error status or transport failure),      *)
(* every other identifier whose fetch succeeded and whose record is valid  *)
(* still has its block in the returned document, and each failed           *)
(* identifier left a log entry.                                            *)
C1_FetchFailureIsolated ==
    (variant = "conversational" /\ pc = "done" /\ \E p \in Positions : FetchFailed(p))
    => /\ \A q \in Positions : RecordValid(q) => HasBlockFor(q)
       /\ \A p \in Positions : FetchFailed(p) =>
            \/ Logged("Failed to retrieve product ID", product_ids[p])
            \/ Logged("Error retrieving product ID", product_ids[p])

(* C2: in get_product_data (validation in the caller: conversational and   *)
(* fc), when a fetched record does not satisfy the Product schema, every   *)
(* record of the batch that does satisfy it is still rendered: one invalid *)
(* record never turns the whole result into absent (or into a message).    *)
C2_InvalidRecordDroppedAlone ==
    (variant \in {"conversational", "fc"} /\ pc = "done"
        /\ \E p \in Positions : RecordRejected(p))
    => /\ \A q \in Positions : RecordValid(q) => HasBlockFor(q)
       /\ (ValidPositions # {} => result.kind = "document")

(* C3: whenever get_product_data returns a document, it holds exactly n    *)
(* blocks, n the number of identifiers fetched and valid; the blocks carry *)
(* the ordinals 1..n, and every block is the block of a valid record.      *)
C3_ExactlyNBlocks ==
    (variant # "fc2" /\ pc = "done" /\ result.kind = "document")
    => /\ Len(result.blocks) = Cardinality(ValidPositions)
       /\ \A k \in DOMAIN result.blocks : result.blocks[k].idx = k
       /\ \A k \in DOMAIN result.blocks :
            \E p \in ValidPositions : IsBlockOf(result.blocks[k], product_ids[p])

C3_Witness ==
    /\ variant = "conversational"
    /\ pc = "done"
    /\ result.kind = "document"
    /\ Len(result.blocks) = 2
    /\ \E p \in Positions : RecordRejected(p) \/ FetchFailed(p)

(* C4: in the sequential and in the concurrent variants, the k-th rendered *)
(* block is the block of the k-th valid identifier of the input list,      *)
(* whatever the order in which the fetches completed.                      *)
C4_InputOrder ==
    (pc = "done" /\ IsDocument)
    => /\ Len(result.blocks) = Cardinality(ValidPositions)
       /\ \A k \in DOMAIN result.blocks :
            IsBlockOf(result.blocks[k], product_ids[KthValid(k)])

C4_Witness ==
    /\ variant \in Concurrent
    /\ pc = "done"
    /\ reordered
    /\ IsDocument
    /\ Len(result.blocks) >= 2
    /\ result.blocks[1] # result.blocks[2]

(* C5, as claimed: in the concurrent variants validation, rendering and    *)
(* the return of a result happen only after every issued fetch completed.  *)
ValidationRan ==
    \/ \E p \in Positions : task_result[p].type = "product"
    \/ \E e \in BagToSet(log) :
          e.event \in {"Validation error", "Validation error for product ID"}

C5_AllAfterBarrier ==
    (variant \in Concurrent /\ (pc = "done" \/ result # NoResult \/ ValidationRan))
    => NoFetchInFlight

(* C5, amended: in the concurrent variants rendering and the return of a   *)
(* result (and, in fc, validation) happen only after every issued fetch    *)
(* completed; in fc2 each record is validated inside its own fetch task.   *)
C5_ReturnAfterBarrier ==
    variant \in Concurrent
    => /\ (pc = "done" \/ result # NoResult \/ raised) => NoFetchInFlight
       /\ (pc = "done" /\ configured) =>
            /\ \A p \in Positions : status[p] = "done"
            /\ Len(requests) = Len(product_ids)
       /\ (variant = "fc" /\ ValidationRan) => NoFetchInFlight

C5_Witness ==
    /\ variant \in Concurrent
    /\ pc = "done"
    /\ reordered
    /\ IsDocument
    /\ Len(result.blocks) >= 2

(* C6: get_product_data of conversational_assistant_pipeline.py and of     *)
(* data_pipeline.py returns None when the base URL is unset, when every    *)
(* fetch failed, and when every fetched record was rejected.               *)
C6_AbsenceOnTotalFailure ==
    (variant \in Sequential /\ pc = "done"
        /\ \/ ~ configured
           \/ (Positions # {} /\ \A p \in Positions : FetchFailed(p))
           \/ ((\E p \in Positions : RecordRejected(p)) /\ ValidPositions = {}))
    => result = ReturnNone

(* C7: with the base URL unset, get_product_data of the conversational     *)
(* pipeline returns None and issues no HTTP request, for any identifier    *)
(* list.                                                                   *)
C7_NoRequestWhenUnset ==
    (variant = "conversational" /\ ~ configured)
    => /\ requests = <<>>
       /\ NoFetchInFlight
       /\ pc # "fetching"
       /\ (pc = "done" => result = ReturnNone)

C7_Witness ==
    /\ variant = "conversational"
    /\ ~ configured
    /\ pc = "done"
    /\ Len(product_ids) >= 2

(* C8: in get_product_data of the conversational pipeline no exception     *)
(* reaches the caller: a failed fetch is logged by fetch_product, and an   *)
(* exception raised while validating (a TypeError on a record that is no   *)
(* mapping) is caught around the batch, logged, and turned into None.      *)
C8_NoExceptionEscapes ==
    variant = "conversational"
    => /\ ~ raised
       /\ (pc = "done" /\ \E p \in Positions : NotAMapping(p)) =>
            /\ result = ReturnNone
            /\ Logged("An error occurred while retrieving product data", 0)
       /\ \A p \in Positions : FetchFailed(p) =>
            \/ Logged("Failed to retrieve product ID", product_ids[p])
            \/ Logged("Error retrieving product ID", product_ids[p])

C8_Witness ==
    /\ variant = "conversational"
    /\ pc = "done"
    /\ \E p \in Positions : NotAMapping(p)
    /\ \E p \in Positions : RecordValid(p)
    /\ \E p \in Positions : FetchFailed(p)

----------------------------------------------------------------------------
(* Properties of structure_product_data, under SpecStructure *)

HasColon(s) == \E i \in 1..Len(s) : s[i] = ":"

FirstColon(s) == CHOOSE i \in 1..Len(s) : s[i] = ":" /\ \A h \in 1..(i - 1) : s[h] # ":"

AfterFirstColon(s) == SubSeqFrom(s, FirstColon(s) + 1)

Blank(s) == \A i \in 1..Len(s) : s[i] \in {" ", "\n"}

\* s without its leading and trailing whitespace
Trimmed(s) ==
    IF Blank(s) THEN <<>>
    ELSE LET first == CHOOSE i \in 1..Len(s) :
                        s[i] \notin {" ", "\n"} /\ \A h \in 1..(i - 1) : s[h] \in {" ", "\n"}
             last == CHOOSE i \in 1..Len(s) :
                        s[i] \notin {" ", "\n"} /\ \A h \in (i + 1)..Len(s) : s[h] \in {" ", "\n"}
         IN SubSeq(s, first, last)

\* s up to its first line break
FirstLine(s) ==
    IF \E i \in 1..Len(s) : s[i] = "\n"
    THEN SubSeq(s, 1, (CHOOSE i \in 1..Len(s) :
                          s[i] = "\n" /\ \A h \in 1..(i - 1) : s[h] # "\n") - 1)
    ELSE s

\* s without its leading whitespace
LeftTrimmed(s) ==
    IF Blank(s) THEN <<>>
    ELSE SubSeqFrom(s, CHOOSE i \in 1..Len(s) :
                          s[i] \notin {" ", "\n"} /\ \A h \in 1..(i - 1) : s[h] \in {" ", "\n"})

OnlyLineBreaks(s) == \A i \in 1..Len(s) : s[i] = "\n"

(* C9, as claimed: the name is the trimmed text after the first colon of   *)
(* the description (also when that text is empty or spans several lines),  *)
(* and the placeholder exactly when the description has no colon.          *)
C9_NameAfterFirstColon ==
    pc = "transformed"
    => /\ structured.name =
            IF HasColon(product.description)
            THEN Trimmed(AfterFirstColon(product.description))
            ELSE <<"Unknown Product">>
       /\ (structured.name = <<"Unknown Product">>) <=> ~ HasColon(product.description)

(* C9, amended: the name is the first line of the text after the first     *)
(* colon, taken after skipping leading whitespace (line breaks included)   *)
(* and trimmed; it is empty when only whitespace other than line breaks    *)
(* alone follows the colon; it is the placeholder exactly when the         *)
(* description has no colon or nothing but line breaks follows the first   *)
(* colon.                                                                  *)
C9_NameFirstLineAfterColon ==
    pc = "transformed"
    => LET d == product.description IN
       /\ structured.name =
            IF ~ HasColon(d) \/ OnlyLineBreaks(AfterFirstColon(d))
            THEN <<"Unknown Product">>
            ELSE Trimmed(FirstLine(LeftTrimmed(AfterFirstColon(d))))
       /\ (structured.name = <<"Unknown Product">>)
            <=> (~ HasColon(d) \/ OnlyLineBreaks(AfterFirstColon(d)))

C9_Witness ==
    /\ pc = "transformed"
    /\ HasColon(product.description)
    /\ \E i \in 1..Len(product.description) : product.description[i] = "\n"
    /\ structured.name = <<"a">>
    /\ Trimmed(AfterFirstColon(product.description)) # <<"a">>

(* C10: the structured description is content, then " - ", then the        *)
(* original description; the image is image_url; the result is a           *)
(* StructuredProduct whose fields pass its own validation (image is an     *)
(* HttpUrl), so constructing it does not fail.                             *)
C10_DescriptionAndImage ==
    pc = "transformed" =>
        LET c == product.content
            d == product.description
            out == structured.description
        IN /\ Len(out) = Len(c) + 3 + Len(d)
           /\ \A i \in 1..Len(c) : out[i] = c[i]
           /\ out[Len(c) + 1] = " " /\ out[Len(c) + 2] = "-" /\ out[Len(c) + 3] = " "
           /\ \A i \in 1..Len(d) : out[Len(c) + 3 + i] = d[i]
           /\ structured.image = product.image_url
           /\ DOMAIN structured = {"name", "description", "image"}
           /\ IsHttpUrl(structured.image)

C10_Witness ==
    /\ pc = "transformed"
    /\ Len(product.description) = MaxLen
    /\ product.content # product.description
    /\ structured.image = product.image_url

(* C11, as claimed: format_products_to_markdown, given an empty sequence   *)
(* of products, yields the absence signal; it never produces a document    *)
(* that is the heading with zero product blocks.                           *)
C11_EmptyRendersAbsent ==
    (pc = "rendered" /\ structured_products = <<>>)
    => ~ (IsDocument /\ result.blocks = <<>>)

(* C11, amended: get_product_data never returns a document with zero       *)
(* product blocks: when no structured product remains it returns its       *)
(* absence result without calling the formatter. The formatter itself,     *)
(* given an empty sequence, returns the heading alone.                     *)
C11_NoEmptyDocumentReturned ==
    /\ pc = "processed" => /\ ~ (IsDocument /\ result.blocks = <<>>)
                           /\ (structured_products = <<>> => ~ IsDocument)
    /\ (pc = "rendered" /\ structured_products = <<>>)
       => (result.kind = "document" /\ result.text = Heading(variant)
           /\ result.blocks = <<>>)

C11_Witness ==
    /\ pc = "processed"
    /\ raw_products # <<>>
    /\ structured_products = <<>>
    /\ result.kind \in {"none", "text"}

(* C12: get_product_data returns for a non-empty identifier list of which  *)
(* no valid product remains (every fetch failed, or every fetched record   *)
(* was rejected) what it returns for the empty identifier list.            *)
C12_EmptyListSameAsNoValid ==
    (pc = "done" /\ first_call.set /\ first_call.ids = <<>>
        /\ product_ids # <<>> /\ ValidPositions = {})
    => result = first_call.result

(* C15: two invocations of get_product_data with the same identifier list  *)
(* against an unchanged remote return the same result, whatever was        *)
(* invoked in between: nothing an invocation wrote is read by a later one. *)
C15_SameIdsSameResult ==
    (pc = "done" /\ first_call.set /\ product_ids = first_call.ids)
    => result = first_call.result

C15_Witness ==
    /\ pc = "done"
    /\ first_call.set
    /\ first_call.between
    /\ product_ids = first_call.ids
    /\ result.kind = "document"
    /\ Len(result.blocks) = 2
    /\ \E p \in Positions : FetchFailed(p) \/ RecordRejected(p)

(* C16: in one invocation of get_product_data exactly one GET is issued    *)
(* per entry of the identifier list, a repeated identifier included, and   *)
(* no fetch is issued a second time after it failed.                       *)
C16_OneGetPerEntry ==
    /\ Len(requests) = Cardinality({p \in Positions : status[p] # "pending"})
    /\ \A k \in DOMAIN requests :
         k \in Positions /\ requests[k].pid = product_ids[k]
    /\ (configured /\ (pc = "done" \/ (pc = "fetching" /\ variant \in Concurrent)))
       => Len(requests) = Len(product_ids)

C16_Witness ==
    /\ pc = "done"
    /\ Len(product_ids) = 3
    /\ product_ids[1] = product_ids[3]
    /\ FetchFailed(1)
    /\ Len(requests) = 3

(* C17: in the sequential variants the fetches are strictly serial and in  *)
(* input order: the GET of position i+1 is issued only after the fetch of  *)
(* position i has returned, and at most one request is in flight.          *)
C17_StrictlySerial ==
    variant \in Sequential
    => /\ Cardinality({p \in Positions : status[p] = "inflight"}) <= 1
       /\ \A p \in Positions : status[p] # "pending"
            => \A q \in 1..(p - 1) : status[q] = "done"
       /\ \A k \in DOMAIN requests : requests[k].pid = product_ids[k]
       /\ ~ reordered

C17_Witness ==
    /\ variant \in Sequential
    /\ pc = "fetching"
    /\ Len(product_ids) = 3
    /\ FetchFailed(1)
    /\ status[2] = "inflight"
    /\ status[3] = "pending"
    /\ Len(requests) = 2

\* the number of log entries, copies counted, that fetch_product wrote for pid
RECURSIVE CopiesOf(_, _)
CopiesOf(entries, bag) ==
    IF entries = {} THEN 0
    ELSE LET e == CHOOSE x \in entries : TRUE
         IN CopiesIn(e, bag) + CopiesOf(entries \ {e}, bag)

FetchEntries(pid) == CopiesOf({e \in BagToSet(log) : e.pid = pid}, log)

(* C19: every call of fetch_product writes a log entry before it returns,  *)
(* on the success path as on every failure path, in every variant: the log *)
(* holds at least one entry per returned fetch of an identifier.           *)
C19_EveryFetchLogged ==
    \A pid \in Pids :
        FetchEntries(pid) >= Cardinality({p \in Positions :
                                status[p] = "done" /\ product_ids[p] = pid})

\* what the slot of position p holds once its own response has arrived
ExpectedSlot(p) ==
    IF FetchFailed(p) THEN None
    ELSE IF variant = "fc2"
    THEN IF RecordValid(p)
         THEN ProductValue([content |-> ContentOf(product_ids[p]),
                            description |-> DescriptionOf(product_ids[p]),
                            image_url |-> ImageOf(product_ids[p])])
         ELSE None
    ELSE response[p].body

(* C20: in the concurrent variants the fetch tasks are independent: the    *)
(* result slot of a position depends on the response to its own request    *)
(* only, a task whose response has not arrived is still in flight with an  *)
(* empty slot whatever happened to the others, and at the return every     *)
(* task has run to its own response, in whatever order they completed.     *)
C20_TasksIndependent ==
    variant \in Concurrent
    => /\ \A p \in Positions :
            /\ status[p] = "done"
               => /\ response[p] \in Responses(product_ids[p])
                  /\ task_result[p] = ExpectedSlot(p)
            /\ status[p] = "inflight"
               => (response[p] = NoResponse /\ task_result[p] = None)
       /\ (pc = "done" /\ configured) => \A p \in Positions : status[p] = "done"
       /\ (pc = "fetching") => \A p \in Positions : status[p] # "pending"

C20_Witness ==
    /\ variant \in Concurrent
    /\ pc = "done"
    /\ reordered
    /\ Len(product_ids) = 3
    /\ FetchFailed(1)
    /\ NotAMapping(3)
    /\ RecordValid(2)
    /\ task_result[2] # None

(* C18: get_product_data returns even when the remote endpoint never       *)
(* answers a request, in the sequential and in the concurrent variants:    *)
(* as long as it has not returned, it is never left with nothing that can  *)
(* happen (every wait of it ends).                                         *)
C18_NeverHangs == pc # "done" => ENABLED NextLive

(* C13: when get_product_data returns absent, pipe substitutes the apology *)
(* for the catalogue content and still goes on to the completion call: a   *)
(* completion call is made in every invocation of pipe, on the failure     *)
(* path as on the success path.                                            *)
C13_CompletionOnEveryTurn ==
    pc = "returned"
    => /\ completion_calls >= 1
       /\ (~ truthy(result) =>
            \E i \in DOMAIN conversation :
                conversation[i].content = assistant_context(ReturnText(Apology)))

(* C14: when a document is retrieved, the conversation handed to the       *)
(* completion call is one system message (preamble and document) followed  *)
(* by the incoming messages, in their order and as they came; the          *)
(* completion call is made exactly once; and no step of pipe changes the   *)
(* caller's message list.                                                  *)
C14_SystemMessageThenMessages ==
    /\ []((pc \in {"completing", "returned"} /\ result.kind = "document")
          => /\ Len(conversation) = 1 + Len(messages)
             /\ conversation[1] = [role |-> "system",
                                   content |-> assistant_context(result)]
             /\ \A i \in DOMAIN messages : conversation[i + 1] = messages[i]
             /\ Cardinality({i \in DOMAIN conversation :
                                conversation[i].role = "system"}) = 1
             /\ completion_calls = 1)
    /\ [][messages' = messages]_vars

C14_Witness ==
    /\ pc = "returned"
    /\ result.kind = "document"
    /\ Len(result.blocks) = 2
    /\ Len(messages) = 2
    /\ messages[1] # messages[2]
    /\ Len(conversation) = 3
    /\ completion_calls = 1
    /\ assistant_reply = "reply"

(* C21: pipe of the conversational pipeline never raises and what it       *)
(* returns is a text: the reply of the completion, or, when the completion *)
(* call raises or its response has no choices/message/content, the fixed   *)
(* text of generate_assistant_reply, which has then logged the error; or   *)
(* the apology when no product data was retrieved.                         *)
C21_PipeReturnsText ==
    /\ ~ raised
    /\ pc = "returned"
       => /\ assistant_reply # NoReply
          /\ (completion.kind = "response" => assistant_reply = completion.content)
          /\ (completion.kind \in {"raises", "no choice"}
                => /\ assistant_reply = NoAnswer
                   /\ Logged("An error occurred while generating assistant reply", 0))
          /\ (completion = NoCompletion => assistant_reply = Apology)

C21_Witness ==
    /\ pc = "returned"
    /\ completion.kind = "no choice"
    /\ assistant_reply = NoAnswer
    /\ result.kind = "document"
    /\ ~ raised

\* what inlet has appended to the message list it was given
Appended ==
    IF Len(body.messages) >= Len(messages)
    THEN SubSeq(body.messages, Len(messages) + 1, Len(body.messages))
    ELSE <<>>

\* the messages that came in are a prefix of body["messages"]
PrefixKept ==
    /\ Len(body.messages) >= Len(messages)
    /\ \A i \in DOMAIN messages : body.messages[i] = messages[i]

\* a user record whose role is missing or not one of the target roles
Refused ==
    /\ variant \in Filters
    /\ user.given
    /\ (~ user.has_role \/ user.role \notin target_user_roles)

(* C22: in every inlet filter, when the role of the user is not in         *)
(* target_user_roles (a user record without role included), no retrieval   *)
(* is started and no HTTP request is issued during the call, and exactly   *)
(* one assistant message, the refusal of the filter, is appended to        *)
(* body["messages"].                                                       *)
C22_RefusedRoleNoRetrieval ==
    Refused
    => /\ requests = <<>>
       /\ pc \in {"inlet", "returned"}
       /\ result = NoResult
       /\ \A p \in Positions : status[p] = "pending"
       /\ pc = "returned" => (PrefixKept /\ Appended = <<Refusal(variant)>>)

C22_Witness ==
    /\ Refused
    /\ ~ user.has_role
    /\ pc = "returned"
    /\ Len(messages) = 2
    /\ Len(body.messages) = 3

(* C23: for every inlet call given a user record, the messages that were   *)
(* in body["messages"] stay, unchanged and in their order, as a prefix,    *)
(* and inlet only appends assistant messages after them: in the product    *)
(* filters two for a permitted role (data or fallback, then the time) and  *)
(* one for a refused role, in the space filter one in either case; no      *)
(* other key of body is changed.                                           *)
C23_OnlyAppendsAssistantMessages ==
    /\ []((variant \in Filters /\ user.given)
          => /\ PrefixKept
             /\ \A i \in DOMAIN Appended : Appended[i].role = "assistant"
             /\ pc # "returned" => Appended = <<>>
             /\ pc = "returned"
                => /\ Len(Appended) = IF variant \in ProductFilters /\ ~ Refused
                                      THEN 2 ELSE 1
                   /\ (variant \in ProductFilters /\ ~ Refused)
                      => Appended[2] = TimeMessage)
    /\ [][/\ DOMAIN body' = DOMAIN body
          /\ \A key \in DOMAIN body \ {"messages"} : body'[key] = body[key]]_vars

C23_Witness ==
    /\ variant = "fc"
    /\ user.given
    /\ ~ Refused
    /\ pc = "returned"
    /\ Len(messages) = 2
    /\ messages[1] # messages[2]
    /\ Len(body.messages) = 4
    /\ body.messages[3].content.data.kind = "document"

\* r is a string with at least one character
NonEmptyString(r) ==
    \/ r.kind = "text" /\ r.text # ""
    \/ r.kind = "document" /\ r.text # ""
    \/ r.kind = "listing" /\ r.blocks # <<>>

====
